---------------------------- MODULE Spec2Model ----------------------------
(***************************************************************************)
(* A model of the schema validator of next-api-responder                   *)
(* (src/unnamed/part_000): validateRule, validate, validatePartial,        *)
(* sanitize and validateAndSanitize over JavaScript values; and of its     *)
(* response helpers and withHandler (src/src/format.ts).                   *)
(*                                                                         *)
(* The specifications share the variables: Spec (one call of an entry      *)
(* point on a schema of several fields), SpecRule (one rule on one field), *)
(* SpecPair (a type rule and a constraint on one field), SpecReuse (call   *)
(* after call under one kept schema), SpecHandler (one call of a function  *)
(* made by withHandler), SpecHandlerFair (the same under the scheduling of *)
(* the language) and SpecHelper (one call of a response helper).           *)
(*                                                                         *)
(* JavaScript values are tagged records.  A plain object is its own        *)
(* properties (a function from keys to values) on top of Object.prototype, *)
(* so that `key in obj` and `obj[key]` see inherited properties as the     *)
(* language defines them.  A JavaScript string is a sequence of one-       *)
(* character strings; Text turns it into the text of a message.            *)
(***************************************************************************)
EXTENDS Integers, Sequences, FiniteSets, TLC

VARIABLES
    schema,   \* the ValidationSchema handed to the call: Object.entries order
    given,    \* the payload as the caller built it
    data,     \* the `data` argument of the call, as the call left it
    fn,       \* the entry point that was called ("none" before the call)
    result,   \* what the call did: returned a value or threw an error
    prev,     \* the result of the call whose return value was fed back in
    lastIndex,\* the lastIndex of the global pattern object the schema holds
    handler,  \* what the route handler given to withHandler does when called,
              \* or the response helper that was called and its arguments
    pc,       \* where the function withHandler returned is: "idle" before
              \* the call, "awaiting" at its await, "done" once it settled
    settled,  \* what the promise of that function settled with
    logged    \* whether console.error was called

\* the validator's part of the state and the wrapper's part
vvars == <<schema, given, data, fn, result, prev, lastIndex>>
hvars == <<handler, pc, settled, logged>>
vars == <<schema, given, data, fn, result, prev, lastIndex, handler, pc, settled, logged>>

\* no wrapped handler is in play
NotServing ==
    /\ handler = [does |-> "nothing"]
    /\ pc = "idle"
    /\ settled = [kind |-> "none"]
    /\ logged = FALSE

-----------------------------------------------------------------------------
(* Bounds of the model. *)

\* schema keys per schema
MaxFields == 2
\* rules in one field's rule array
MaxRules == 2

-----------------------------------------------------------------------------
(* JavaScript values. *)

Undefined == [t |-> "undefined"]
Null == [t |-> "null"]
NaN == [t |-> "NaN"]
Str(cs) == [t |-> "string", s |-> cs]
Num(n) == [t |-> "number", n |-> n]
Bool(b) == [t |-> "boolean", b |-> b]
Arr(es) == [t |-> "array", es |-> es]
Obj(own) == [t |-> "object", own |-> own]
Fn(name) == [t |-> "function", f |-> name]
\* the pending result of an async function
PromiseOf(v) == [t |-> "promise", v |-> v]

\* the own properties of {}
NoProps == [k \in {} |-> Undefined]

\* typeof v
TypeOf(v) ==
    CASE v.t = "undefined" -> "undefined"
      [] v.t = "null" -> "object"
      [] v.t = "NaN" -> "number"
      [] v.t = "string" -> "string"
      [] v.t = "number" -> "number"
      [] v.t = "boolean" -> "boolean"
      [] v.t = "array" -> "object"
      [] v.t = "object" -> "object"
      [] v.t = "promise" -> "object"
      [] v.t = "function" -> "function"

\* Array.isArray(v)
IsArray(v) == v.t = "array"

\* !v : the falsy values are undefined, null, false, 0, NaN and ""
Falsy(v) ==
    \/ v.t \in {"undefined", "null", "NaN"}
    \/ v.t = "boolean" /\ ~v.b
    \/ v.t = "number" /\ v.n = 0
    \/ v.t = "string" /\ v.s = <<>>

\* The properties every plain object inherits from Object.prototype; the
\* model carries one of them (the others behave alike).
ProtoKeys == {"toString"}
ObjectPrototype == [k \in ProtoKeys |-> Fn(k)]

\* the own properties of an object under the field names of the model (an
\* array owns its indices and its length, a function its name and length)
OwnProps(obj) == IF obj.t = "object" THEN obj.own ELSE NoProps

\* Object.prototype.hasOwnProperty.call(obj, key)
HasOwn(obj, key) == key \in DOMAIN OwnProps(obj)

\* key in obj : own or inherited
HasProperty(obj, key) == HasOwn(obj, key) \/ key \in ProtoKeys

\* obj[key]
Get(obj, key) ==
    IF HasOwn(obj, key) THEN OwnProps(obj)[key]
    ELSE IF key \in ProtoKeys THEN ObjectPrototype[key]
    ELSE Undefined

\* obj[key] = v on a plain object (key is not "__proto__")
Put(obj, key, v) ==
    Obj([k \in DOMAIN obj.own \cup {key} |-> IF k = key THEN v ELSE obj.own[k]])

RECURSIVE Text(_)
\* the text of a JavaScript string
Text(cs) == IF cs = <<>> THEN "" ELSE Head(cs) \o Text(Tail(cs))

RECURSIVE Join(_, _)
\* parts.join(sep) for an array of texts
Join(parts, sep) ==
    IF parts = <<>> THEN ""
    ELSE IF Len(parts) = 1 THEN parts[1]
    ELSE parts[1] \o sep \o Join(Tail(parts), sep)


-----------------------------------------------------------------------------
(* Rules.  A rule is a value too: a string (its tag) or an object carrying  *)
(* constraint keys.                                                        *)

\* a type rule: one of the string literals of ValidationRule
TypeRule(tag) == [t |-> "string", tag |-> tag]

\* an object rule without any constraint key
NoConstraint ==
    [t |-> "object", keys |-> {}, min |-> 0, max |-> 0, minLength |-> 0,
     maxLength |-> 0, pattern |-> "", flags |-> "", enum |-> <<>>,
     custom |-> ""]

MinRule(n) == [NoConstraint EXCEPT !.keys = {"min"}, !.min = n]
MaxRule(n) == [NoConstraint EXCEPT !.keys = {"max"}, !.max = n]
MinLengthRule(n) == [NoConstraint EXCEPT !.keys = {"minLength"}, !.minLength = n]
MaxLengthRule(n) == [NoConstraint EXCEPT !.keys = {"maxLength"}, !.maxLength = n]
PatternRule(re) == [NoConstraint EXCEPT !.keys = {"pattern"}, !.pattern = re]
\* { pattern: /re/g }
GlobalPatternRule(re) == [PatternRule(re) EXCEPT !.flags = "g"]
EnumRule(vs) == [NoConstraint EXCEPT !.keys = {"enum"}, !.enum = vs]
CustomRule(p) == [NoConstraint EXCEPT !.keys = {"custom"}, !.custom = p]

\* rule.endsWith("?")
Optional(tag) ==
    tag \in {"string?", "number?", "boolean?", "object?", "array?", "email?", "url?"}

\* optional ? rule.slice(0, -1) : rule
BaseType(tag) ==
    CASE tag \in {"string", "string?"} -> "string"
      [] tag \in {"number", "number?"} -> "number"
      [] tag \in {"boolean", "boolean?"} -> "boolean"
      [] tag \in {"object", "object?"} -> "object"
      [] tag \in {"array", "array?"} -> "array"
      [] tag \in {"email", "email?"} -> "email"
      [] tag \in {"url", "url?"} -> "url"
      [] OTHER -> tag

-----------------------------------------------------------------------------
(* Characters and the two string shapes. *)

UpperChars == {"A", "B"}
LowerChars == {"a", "b", "c", "l", "o"}
DigitChars == {"1", "2"}
SpaceChars == {" "}

\* [^\s@]
NotSpaceNorAt(c) == c \notin SpaceChars /\ c # "@"

\* [^\s@]+ over cs[lo..hi]
Plain(cs, lo, hi) == \A i \in lo..hi : NotSpaceNorAt(cs[i])

\* /^[^\s@]+@[^\s@]+\.[^\s@]+$/.test(cs)
IsEmail(cs) ==
    \E i, j \in 1..Len(cs) :
        /\ 1 < i /\ i + 1 < j /\ j < Len(cs)
        /\ cs[i] = "@" /\ cs[j] = "."
        /\ Plain(cs, 1, i - 1)
        /\ Plain(cs, i + 1, j - 1)
        /\ Plain(cs, j + 1, Len(cs))

SchemeStart(c) == c \in UpperChars \cup LowerChars
SchemeChar(c) == c \in UpperChars \cup LowerChars \cup DigitChars \cup {"+", "-", "."}

\* new URL(cs) does not throw: an absolute URL has a scheme, a letter
\* followed by letters, digits, "+", "-" or ".", and then ":".  (The schemes
\* the parser treats specially, such as http, also need a host; the model's
\* strings spell no such scheme.)
IsUrl(cs) ==
    \E i \in 2..Len(cs) :
        /\ cs[i] = ":"
        /\ SchemeStart(cs[1])
        /\ \A k \in 2..(i - 1) : SchemeChar(cs[k])

\* pattern.test(cs) for the regular expressions of the model's schemas
RegexTest(re, cs) ==
    CASE re = "^[A-Z]+$" -> cs # <<>> /\ \A i \in 1..Len(cs) : cs[i] \in UpperChars
      [] OTHER -> FALSE

\* rule.pattern.test(cs) on a pattern object whose lastIndex is li: whether
\* it matched and the lastIndex it leaves.  A global pattern starts its
\* search at lastIndex, where ^ matches only if that is 0, leaves the end of
\* the match there, and 0 after a failure; any other pattern searches from 0
\* and leaves lastIndex alone.
PatternTest(rule, cs, li) ==
    IF rule.flags = "g"
    THEN IF li = 0 /\ RegexTest(rule.pattern, cs)
         THEN [ok |-> TRUE, lastIndex |-> Len(cs)]
         ELSE [ok |-> FALSE, lastIndex |-> 0]
    ELSE [ok |-> RegexTest(rule.pattern, cs), lastIndex |-> li]

-----------------------------------------------------------------------------
(* Conversions to text and to number, as the language performs them. *)

RECURSIVE ToText(_)
\* String(v), as template literals and Array.prototype.join apply it
ToText(v) ==
    CASE v.t = "undefined" -> "undefined"
      [] v.t = "null" -> "null"
      [] v.t = "NaN" -> "NaN"
      [] v.t = "string" -> Text(v.s)
      [] v.t = "number" -> ToString(v.n)
      [] v.t = "boolean" -> IF v.b THEN "true" ELSE "false"
      [] v.t = "array" ->
            Join([i \in 1..Len(v.es) |->
                    IF v.es[i].t \in {"undefined", "null"} THEN "" ELSE ToText(v.es[i])],
                 ",")
      [] v.t = "object" -> "[object Object]"
      [] v.t = "promise" -> "[object Promise]"
      [] v.t = "function" -> "function " \o v.f \o "() { [native code] }"

\* values.join(sep): undefined and null elements give the empty text
JoinValues(vs, sep) ==
    Join([i \in 1..Len(vs) |->
            IF vs[i].t \in {"undefined", "null"} THEN "" ELSE ToText(vs[i])],
         sep)

\* a === b
StrictEquals(a, b) ==
    /\ a.t = b.t
    /\ a.t \notin {"NaN", "object", "array", "promise"}
    /\ a = b

\* values.includes(v): SameValueZero, under which NaN is found
Includes(vs, v) ==
    \E i \in 1..Len(vs) : StrictEquals(vs[i], v) \/ (vs[i].t = "NaN" /\ v.t = "NaN")

\* v >= n for a number n: v is converted to a number first; [isNum, n]
ToNumber(v) ==
    CASE v.t = "number" -> [isNum |-> TRUE, n |-> v.n]
      [] v.t = "null" -> [isNum |-> TRUE, n |-> 0]
      [] v.t = "boolean" -> [isNum |-> TRUE, n |-> IF v.b THEN 1 ELSE 0]
      [] v.t = "string" /\ v.s = <<>> -> [isNum |-> TRUE, n |-> 0]
      [] v.t = "array" /\ v.es = <<>> -> [isNum |-> TRUE, n |-> 0]
      [] v.t = "array" /\ Len(v.es) = 1 /\ v.es[1].t = "number" ->
            [isNum |-> TRUE, n |-> v.es[1].n]
      [] OTHER -> [isNum |-> FALSE, n |-> 0]

-----------------------------------------------------------------------------
(* Custom predicates a schema can hold. *)

TooLow == <<"t", "o", "o", " ", "l", "o", "w">>

\* rule.custom(value): [threw, value]
CustomApply(p, v) ==
    CASE p = "adult" ->
            \* (v) => v >= 18 || "too low"
            [threw |-> FALSE,
             value |-> IF ToNumber(v).isNum /\ ToNumber(v).n >= 18
                       THEN Bool(TRUE) ELSE Str(TooLow)]
      [] p = "isTrue" ->
            \* (v) => v === true
            [threw |-> FALSE, value |-> Bool(StrictEquals(v, Bool(TRUE)))]
      [] p = "long" ->
            \* (v) => v.length > 1 : reading a property of undefined or null throws
            IF v.t \in {"undefined", "null"} THEN [threw |-> TRUE, value |-> Undefined]
            ELSE [threw |-> FALSE,
                  value |-> Bool(CASE v.t = "string" -> Len(v.s) > 1
                                   [] v.t = "array" -> Len(v.es) > 1
                                   [] OTHER -> FALSE)]
      [] p = "blank" ->
            \* (v) => ""
            [threw |-> FALSE, value |-> Str(<<>>)]
      [] p = "async" ->
            \* async (v) => false
            [threw |-> FALSE, value |-> PromiseOf(Bool(FALSE))]
      [] OTHER -> [threw |-> FALSE, value |-> Undefined]

-----------------------------------------------------------------------------
(* The error accumulator: a plain object from field name to list of        *)
(* messages; its own properties are kept in insertion order, the order     *)
(* Object.entries reads them in.                                           *)

\* const errors = {}; with what the call has evaluated and invoked so far
NewAcc ==
    [errors |-> <<>>, exc |-> "none", evals |-> <<>>, calls |-> <<>>,
     lastIndex |-> lastIndex]

\* the place of own property key among the entries, 0 when it is not one
OwnIndex(entries, key) ==
    IF \E i \in 1..Len(entries) : entries[i].key = key
    THEN CHOOSE i \in 1..Len(entries) : entries[i].key = key
    ELSE 0

\* if (!errors[key]) errors[key] = [];
\* an own list and an inherited property are both truthy
EnsureList(errors, key) ==
    IF OwnIndex(errors, key) # 0 \/ key \in ProtoKeys THEN errors
    ELSE Append(errors, [key |-> key, errs |-> <<>>])

\* errors[key].push(msg): what errors[key] holds is the own list or, without
\* one, an inherited function, which has no push: a TypeError
Push(acc, key, msg) ==
    IF OwnIndex(acc.errors, key) # 0
    THEN [acc EXCEPT !.errors[OwnIndex(acc.errors, key)].errs = Append(@, msg)]
    ELSE [acc EXCEPT !.exc = "TypeError"]

\* if (cond) errors[key].push(msg), unless an earlier statement threw
PushIf(acc, key, cond, msg) ==
    IF acc.exc # "none" \/ ~cond THEN acc ELSE Push(acc, key, msg)

-----------------------------------------------------------------------------
(* validateRule *)

\* the switch on baseType: the value is neither undefined nor null
TypeMismatch(baseType, value) ==
    CASE baseType = "string" -> TypeOf(value) # "string"
      [] baseType = "number" -> TypeOf(value) # "number" \/ value.t = "NaN"
      [] baseType = "boolean" -> TypeOf(value) # "boolean"
      [] baseType = "object" ->
            TypeOf(value) # "object" \/ IsArray(value) \/ value.t = "null"
      [] baseType = "array" -> ~IsArray(value)
      [] baseType = "email" -> TypeOf(value) # "string" \/ ~IsEmail(value.s)
      [] baseType = "url" -> TypeOf(value) # "string" \/ ~IsUrl(value.s)
      [] OTHER -> FALSE

TypeMessage(baseType) ==
    CASE baseType = "string" -> "must be a string"
      [] baseType = "number" -> "must be a number"
      [] baseType = "boolean" -> "must be a boolean"
      [] baseType = "object" -> "must be an object"
      [] baseType = "array" -> "must be an array"
      [] baseType = "email" -> "must be a valid email"
      [] baseType = "url" -> "must be a valid URL"
      [] OTHER -> ""

\* value === undefined || value === null
Missing(value) == value.t \in {"undefined", "null"}

\* the branch typeof rule === "string"
CheckType(key, value, tag, acc) ==
    IF Missing(value)
    THEN PushIf(acc, key, ~Optional(tag), "is required")
    ELSE PushIf(acc, key, TypeMismatch(BaseType(tag), value), TypeMessage(BaseType(tag)))

\* value.length of a string or an array
LengthOf(value) == IF value.t = "string" THEN Len(value.s) ELSE Len(value.es)

CheckMin(key, value, rule, acc) ==
    PushIf(acc, key,
           "min" \in rule.keys
             /\ (TypeOf(value) # "number" \/ (value.t = "number" /\ value.n < rule.min)),
           "must be at least " \o ToString(rule.min))

CheckMax(key, value, rule, acc) ==
    PushIf(acc, key,
           "max" \in rule.keys
             /\ (TypeOf(value) # "number" \/ (value.t = "number" /\ value.n > rule.max)),
           "must be at most " \o ToString(rule.max))

\* minLength demanding a string, as min demands a number
CheckMinLengthStrict(key, value, rule, acc) ==
    PushIf(acc, key,
           "minLength" \in rule.keys
             /\ (TypeOf(value) # "string" \/ Len(value.s) < rule.minLength),
           "must be at least " \o ToString(rule.minLength) \o " characters")

CheckMinLength(key, value, rule, acc) ==
    IF "minLength" \notin rule.keys THEN acc
    ELSE IF TypeOf(value) = "string" /\ LengthOf(value) < rule.minLength
    THEN PushIf(acc, key, TRUE,
                "must be at least " \o ToString(rule.minLength) \o " characters")
    ELSE PushIf(acc, key, IsArray(value) /\ LengthOf(value) < rule.minLength,
                "must have at least " \o ToString(rule.minLength) \o " items")

CheckMaxLength(key, value, rule, acc) ==
    IF "maxLength" \notin rule.keys THEN acc
    ELSE IF TypeOf(value) = "string" /\ LengthOf(value) > rule.maxLength
    THEN PushIf(acc, key, TRUE,
                "must be at most " \o ToString(rule.maxLength) \o " characters")
    ELSE PushIf(acc, key, IsArray(value) /\ LengthOf(value) > rule.maxLength,
                "must have at most " \o ToString(rule.maxLength) \o " items")

CheckPattern(key, value, rule, acc) ==
    IF acc.exc # "none" \/ "pattern" \notin rule.keys \/ TypeOf(value) # "string"
    THEN acc
    ELSE LET test == PatternTest(rule, value.s, acc.lastIndex)
         IN  PushIf([acc EXCEPT !.lastIndex = test.lastIndex], key, ~test.ok,
                    "does not match required pattern")

CheckEnum(key, value, rule, acc) ==
    PushIf(acc, key,
           "enum" \in rule.keys /\ ~Includes(rule.enum, value),
           "must be one of: " \o JoinValues(rule.enum, ", "))

\* the custom branch: the predicate is invoked once; what it throws goes up
CheckCustom(key, value, rule, acc) ==
    IF acc.exc # "none" \/ "custom" \notin rule.keys THEN acc
    ELSE LET res == CustomApply(rule.custom, value)
             called == [acc EXCEPT !.calls = Append(@, [key |-> key, pred |-> rule.custom, arg |-> value])]
         IN  IF res.threw THEN [called EXCEPT !.exc = "TypeError"]
             ELSE IF res.value = Bool(FALSE)
             THEN PushIf(called, key, TRUE, "failed custom validation")
             ELSE IF TypeOf(res.value) = "string"
             THEN PushIf(called, key, TRUE, Text(res.value.s))
             ELSE called

\* the branch typeof rule === "object": every known key in turn
CheckConstraints(key, value, rule, acc) ==
    CheckCustom(key, value, rule,
      CheckEnum(key, value, rule,
        CheckPattern(key, value, rule,
          CheckMaxLength(key, value, rule,
            CheckMinLength(key, value, rule,
              CheckMax(key, value, rule,
                CheckMin(key, value, rule, acc)))))))

\* validateRule(key, value, rule, errors)
ValidateRule(key, value, rule, acc) ==
    LET entered == [acc EXCEPT !.errors = EnsureList(acc.errors, key),
                               !.evals = Append(@, [key |-> key, rule |-> rule])]
    IN  IF TypeOf(rule) = "string" THEN CheckType(key, value, rule.tag, entered)
        ELSE IF TypeOf(rule) = "object" THEN CheckConstraints(key, value, rule, entered)
        ELSE entered

-----------------------------------------------------------------------------
(* The entry points.  A call ends in an outcome: the value it returned or  *)
(* the error it threw, with the state it left the input object in, the     *)
(* accumulator as the call left it, and what it evaluated and invoked on   *)
(* the way.                                                                *)

NoFields == <<>>

Returned(value, input, acc) ==
    [kind |-> "return", value |-> value, name |-> "", message |-> "",
     fields |-> NoFields, input |-> input, errors |-> acc.errors,
     evals |-> acc.evals, calls |-> acc.calls, lastIndex |-> acc.lastIndex]

Threw(name, message, fields, input, acc) ==
    [kind |-> "throw", value |-> Undefined, name |-> name, message |-> message,
     fields |-> fields, input |-> input, errors |-> acc.errors,
     evals |-> acc.evals, calls |-> acc.calls, lastIndex |-> acc.lastIndex]

\* the guard without its Array.isArray test
NotAnObjectArrayPasses(d) == Falsy(d) \/ TypeOf(d) # "object"

\* !data || typeof data !== "object" || Array.isArray(data)
NotAnObject(d) == Falsy(d) \/ TypeOf(d) # "object" \/ IsArray(d)

\* throw new ValidationError("Data must be an object"): fields defaults to {}
ShapeError(d) == Threw("ValidationError", "Data must be an object", NoFields, d, NewAcc)

\* the copy storing the record instead of the record's field
CopyFieldWhole(sanitized, obj, key) ==
    IF HasProperty(obj, key) THEN Put(sanitized, key, obj) ELSE sanitized

\* if (key in obj) sanitized[key] = obj[key];
CopyField(sanitized, obj, key) ==
    IF HasProperty(obj, key) THEN Put(sanitized, key, Get(obj, key)) ELSE sanitized

RECURSIVE SanitizeFields(_, _, _)
\* sanitize's loop over Object.keys(schema)
SanitizeFields(obj, entries, sanitized) ==
    IF entries = <<>> THEN sanitized
    ELSE SanitizeFields(obj, Tail(entries), CopyField(sanitized, obj, Head(entries).key))

\* sanitize(data, schema)
Sanitize(d, entries) ==
    IF NotAnObject(d) THEN ShapeError(d)
    ELSE Returned(SanitizeFields(d, entries, Obj(NoProps)), d, NewAcc)

\* Array.isArray(rules) ? rules : [rules]
RuleArray(rules) == IF IsArray(rules) THEN rules.es ELSE <<rules>>

RECURSIVE RunRules(_, _, _, _)
\* for (const rule of ruleArray) validateRule(key, value, rule, errors);
RunRules(key, value, rules, acc) ==
    IF rules = <<>> \/ acc.exc # "none" THEN acc
    ELSE RunRules(key, value, Tail(rules), ValidateRule(key, value, Head(rules), acc))

RECURSIVE ValidateFields(_, _, _)
\* validate's loop over Object.entries(schema)
ValidateFields(obj, entries, acc) ==
    IF entries = <<>> \/ acc.exc # "none" THEN acc
    ELSE ValidateFields(obj, Tail(entries),
            RunRules(Head(entries).key, Get(obj, Head(entries).key),
                     RuleArray(Head(entries).rules), acc))

\* no field is skipped
SkipNoField(obj, key) == FALSE

\* if (!(key in obj)) continue;
SkipField(obj, key) == ~HasProperty(obj, key)

RECURSIVE ValidatePartialFields(_, _, _)
\* validatePartial's loop over Object.entries(schema)
ValidatePartialFields(obj, entries, acc) ==
    IF entries = <<>> \/ acc.exc # "none" THEN acc
    ELSE IF SkipField(obj, Head(entries).key)
    THEN ValidatePartialFields(obj, Tail(entries), acc)
    ELSE ValidatePartialFields(obj, Tail(entries),
            RunRules(Head(entries).key, Get(obj, Head(entries).key),
                     RuleArray(Head(entries).rules), acc))

\* Object.fromEntries(Object.entries(errors).filter(([_, errs]) => errs.length > 0))
FieldErrors(errors) == SelectSeq(errors, LAMBDA e : Len(e.errs) > 0)

\* the message with the two separators exchanged
ErrorMessageSwapped(fieldErrors) ==
    Join([i \in 1..Len(fieldErrors) |->
            fieldErrors[i].key \o ": " \o Join(fieldErrors[i].errs, "; ")],
         ", ")

\* Object.entries(fieldErrors).map(([key, errs]) => `${key}: ${errs.join(", ")}`).join("; ")
ErrorMessage(fieldErrors) ==
    Join([i \in 1..Len(fieldErrors) |->
            fieldErrors[i].key \o ": " \o Join(fieldErrors[i].errs, ", ")],
         "; ")

\* the report with an entry for an own key of obj that has no list in errors
ReportUndeclared(obj, acc) ==
    LET extra == {k \in DOMAIN OwnProps(obj) : OwnIndex(acc.errors, k) = 0}
        fields == IF extra = {} THEN FieldErrors(acc.errors)
                  ELSE Append(FieldErrors(acc.errors),
                              [key |-> CHOOSE k \in extra : TRUE,
                               errs |-> <<"is not allowed">>])
    IN  IF acc.exc # "none" THEN Threw(acc.exc, "", NoFields, obj, acc)
        ELSE IF Len(fields) > 0
        THEN Threw("ValidationError", ErrorMessage(fields), fields, obj, acc)
        ELSE Returned(obj, obj, acc)

\* the end of validate and of validatePartial: throw the report or return obj
Report(obj, acc) ==
    IF acc.exc # "none" THEN Threw(acc.exc, "", NoFields, obj, acc)   \* not caught here
    ELSE IF Len(FieldErrors(acc.errors)) > 0
    THEN Threw("ValidationError", ErrorMessage(FieldErrors(acc.errors)),
               FieldErrors(acc.errors), obj, acc)
    ELSE Returned(obj, obj, acc)

\* validate stripping the undeclared keys from the record it is given
ValidateStripping(d, entries) ==
    IF NotAnObject(d) THEN ShapeError(d)
    ELSE Report(Sanitize(d, entries).value, ValidateFields(d, entries, NewAcc))

\* validate(data, schema)
Validate(d, entries) ==
    IF NotAnObject(d) THEN ShapeError(d)
    ELSE Report(d, ValidateFields(d, entries, NewAcc))

\* validatePartial(data, schema)
ValidatePartial(d, entries) ==
    IF NotAnObject(d) THEN ShapeError(d)
    ELSE Report(d, ValidatePartialFields(d, entries, NewAcc))

\* validateAndSanitize(data, schema): what sanitize throws goes up; validate
\* works on the sanitized record and leaves the caller's data alone
ValidateAndSanitize(d, entries) ==
    LET sanitized == Sanitize(d, entries)
    IN  IF sanitized.kind = "throw" THEN sanitized
        ELSE [Validate(sanitized.value, entries) EXCEPT !.input = sanitized.input]

-----------------------------------------------------------------------------
(* The schemas and the inputs of the model. *)

\* field names a schema declares; "toString" is also a property every
\* plain object inherits
SchemaKeys == {"name", "age", "toString"}

\* a field of the input no schema declares
UnknownKey == "hacker"

\* the rules a field's entry is made of
RulePool(key) ==
    IF key = "age"
    THEN {TypeRule("number?"), MinRule(18), CustomRule("adult")}
    ELSE IF key = "name"
    THEN {TypeRule("string"), MinLengthRule(2)}
    ELSE {TypeRule("string")}

\* the sequences of at most n different elements of S
SeqsOf(S, n) ==
    UNION {{q \in [1..m -> S] : \A i, j \in 1..m : i # j => q[i] # q[j]} : m \in 0..n}

\* what a schema maps a key to: one rule, or an array of rules
RuleSpecs(key) == RulePool(key) \cup {Arr(q) : q \in SeqsOf(RulePool(key), MaxRules)}

SchemaEntries == UNION {{[key |-> k, rules |-> rs] : rs \in RuleSpecs(k)} : k \in SchemaKeys}

\* Object.entries(schema) of every schema of at most MaxFields keys
Schemas ==
    UNION {{e \in [1..n -> SchemaEntries] : \A i, j \in 1..n : i # j => e[i].key # e[j].key}
             : n \in 0..MaxFields}

KeysOf(entries) == {entries[i].key : i \in 1..Len(entries)}

\* the values an input holds under a key
FieldValues(key) ==
    CASE key = "name" -> {Undefined, Str(<<"A">>), Str(<<"A", "l">>)}
      [] key = "age" -> {Null, Num(15), Num(20), Str(<<"A">>)}
      [] key = "toString" -> {Null, Str(<<"A", "l">>)}
      [] OTHER -> {Bool(TRUE)}

\* the plain records with own keys among K
ValuesUnder(D) == UNION {FieldValues(k) : k \in D}

PropsOver(D) == {f \in [D -> ValuesUnder(D)] : \A k \in D : f[k] \in FieldValues(k)}

Records(K) == UNION {{Obj(own) : own \in PropsOver(D)} : D \in SUBSET K}

\* what is not a plain record: null, undefined, an array, primitives, a function
NonRecords ==
    {Null, Undefined, Arr(<<Num(15)>>), Arr(<<>>), Str(<<"A">>), Str(<<>>), Num(15),
     Num(0), NaN, Bool(TRUE), Bool(FALSE), Fn("f")}

NoResult ==
    [kind |-> "none", value |-> Undefined, name |-> "", message |-> "",
     fields |-> NoFields, input |-> Undefined, errors |-> <<>>,
     evals |-> <<>>, calls |-> <<>>, lastIndex |-> 0]

-----------------------------------------------------------------------------
(* The state machine: a caller holds a schema and a payload, calls one     *)
(* entry point on them, and may hand what sanitize returned to sanitize    *)
(* again.                                                                  *)

Init ==
    /\ schema \in Schemas
    /\ given \in NonRecords \cup Records(KeysOf(schema) \cup {UnknownKey})
    /\ data = given
    /\ fn = "none"
    /\ result = NoResult
    /\ prev = NoResult
    /\ lastIndex = 0
    /\ NotServing

\* the call fn(data, schema) ending in outcome out
Call(name, out) ==
    /\ fn = "none"
    /\ fn' = name
    /\ result' = out
    /\ data' = out.input
    /\ lastIndex' = out.lastIndex
    /\ UNCHANGED <<schema, given, prev>>
    /\ UNCHANGED hvars

CallValidate == Call("validate", Validate(data, schema))

CallValidatePartial == Call("validatePartial", ValidatePartial(data, schema))

CallSanitize == Call("sanitize", Sanitize(data, schema))

CallValidateAndSanitize == Call("validateAndSanitize", ValidateAndSanitize(data, schema))

\* sanitize(sanitize(x, s), s): the record sanitize returned is sanitized again
SanitizeAgain ==
    /\ fn = "sanitize"
    /\ result.kind = "return"
    /\ prev.kind = "none"
    /\ prev' = result
    /\ data' = Sanitize(result.value, schema).input
    /\ result' = Sanitize(result.value, schema)
    /\ UNCHANGED <<schema, given, fn, lastIndex>>
    /\ UNCHANGED hvars

Next ==
    \/ CallValidate
    \/ CallValidatePartial
    \/ CallSanitize
    \/ CallValidateAndSanitize
    \/ SanitizeAgain

Spec == Init /\ [][Next]_vars

-----------------------------------------------------------------------------
(* Notions the properties are stated in. *)

\* the call was made on a plain record
OnRecord(name) == fn = name /\ prev.kind = "none" /\ given.t = "object"

\* the messages rule appends for value when it is evaluated on its own
ErrsAlone(value, rule) == ValidateRule("field", value, rule, NewAcc).errors[1].errs

RECURSIVE ErrsOfRules(_, _)
\* the failures of a field's rules, rule after rule
ErrsOfRules(value, rules) ==
    IF rules = <<>> THEN <<>>
    ELSE ErrsAlone(value, Head(rules)) \o ErrsOfRules(value, Tail(rules))

\* the list an error report holds for key (empty when key is not in it)
ListOf(fields, key) ==
    IF OwnIndex(fields, key) = 0 THEN <<>> ELSE fields[OwnIndex(fields, key)].errs

ReportKeys(fields) == {fields[i].key : i \in 1..Len(fields)}

SchemaHasCustom ==
    \E i \in 1..Len(schema) : \E r \in 1..Len(RuleArray(schema[i].rules)) :
        /\ RuleArray(schema[i].rules)[r].t = "object"
        /\ "custom" \in RuleArray(schema[i].rules)[r].keys

-----------------------------------------------------------------------------
(* C1: whatever the schema, a call of validate, validatePartial, sanitize  *)
(* or validateAndSanitize on data that is not a plain record (null,        *)
(* undefined, an array, a primitive) throws a ValidationError with the     *)
(* message 'Data must be an object' and an empty field mapping, having     *)
(* evaluated no rule and invoked no custom predicate.                      *)
C1_ShapeErrorBeforeSchema ==
    (fn # "none" /\ given.t # "object") =>
        /\ result.kind = "throw"
        /\ result.name = "ValidationError"
        /\ result.message = "Data must be an object"
        /\ result.fields = <<>>
        /\ result.evals = <<>>
        /\ result.calls = <<>>

\* validateAndSanitize was called on an array under a schema with a custom rule
C1_Witness ==
    /\ fn = "validateAndSanitize"
    /\ given.t = "array"
    /\ SchemaHasCustom
    /\ result.kind = "throw"

-----------------------------------------------------------------------------
\* every rule of every schema key, in the order validate meets them
AllRuleEvals ==
    LET RECURSIVE Of(_)
        Of(entries) ==
            IF entries = <<>> THEN <<>>
            ELSE [r \in 1..Len(RuleArray(Head(entries).rules)) |->
                    [key |-> Head(entries).key, rule |-> RuleArray(Head(entries).rules)[r]]]
                 \o Of(Tail(entries))
    IN  Of(schema)

\* what the rules of the schema's i-th key append for the value given under it
FailuresOfField(i) ==
    ErrsOfRules(Get(given, schema[i].key), RuleArray(schema[i].rules))

(* C2: validate is not fail-fast: on a record it evaluates every rule of   *)
(* every schema key, and when a field has failures the error it throws     *)
(* lists, for each such field, the failures of all the field's rules in    *)
(* the order of the rules, the failing fields all in that one error.       *)
C2_NotFailFast ==
    OnRecord("validate") =>
        /\ result.evals = AllRuleEvals
        /\ \A i \in 1..Len(schema) :
              FailuresOfField(i) # <<>> =>
                  /\ result.kind = "throw"
                  /\ ListOf(result.fields, schema[i].key) = FailuresOfField(i)

(* C3: on a record, validate and validatePartial throw a ValidationError   *)
(* exactly when an evaluated rule appended an error; every key of the      *)
(* thrown mapping has a non-empty list; a call that returns appended       *)
(* nothing.                                                                *)
C3_ThrowsIffSomeRuleFailed ==
    (OnRecord("validate") \/ OnRecord("validatePartial")) =>
        LET failed == \E a \in 1..Len(result.errors) : result.errors[a].errs # <<>>
        IN  /\ (result.kind = "throw" /\ result.name = "ValidationError") <=> failed
            /\ \A f \in 1..Len(result.fields) : result.fields[f].errs # <<>>
            /\ result.kind = "return" => ~failed

-----------------------------------------------------------------------------
\* the schema's fields that have failures, in schema order, each with them
FailingFields ==
    SelectSeq([i \in 1..Len(schema) |-> [key |-> schema[i].key, errs |-> FailuresOfField(i)]],
              LAMBDA f : f.errs # <<>>)

RECURSIVE CommaList(_)
\* msg1, msg2, ...
CommaList(errs) ==
    IF errs = <<>> THEN ""
    ELSE Head(errs) \o (IF Tail(errs) = <<>> THEN "" ELSE ", " \o CommaList(Tail(errs)))

RECURSIVE Rendered(_)
\* field: msg1, msg2; field2: msg3
Rendered(fields) ==
    IF fields = <<>> THEN ""
    ELSE Head(fields).key \o ": " \o CommaList(Head(fields).errs)
         \o (IF Tail(fields) = <<>> THEN "" ELSE "; " \o Rendered(Tail(fields)))

(* C4: the ValidationError validate throws on a record carries exactly the *)
(* failing fields, in schema order, and its message is these fields, each  *)
(* as '<field>: <errors joined by ", ">', joined with '; ': the message    *)
(* agrees with the mapping the same error carries.                         *)
C4_MessageRendersFields ==
    (OnRecord("validate") /\ result.name = "ValidationError") =>
        /\ result.fields = FailingFields
        /\ result.message = Rendered(result.fields)

\* the documented example: name too short and age too low, in one message
C4_Witness ==
    /\ OnRecord("validate")
    /\ result.name = "ValidationError"
    /\ Len(result.fields) = 2
    /\ result.message = "name: must be at least 2 characters; age: must be at least 18"

(* C5: validate leaves the record it is given as it was, whether it        *)
(* returns or throws, and what it returns is that record, with the keys    *)
(* the schema does not declare.                                            *)
C5_ValidateReturnsInput ==
    OnRecord("validate") =>
        /\ data = given
        /\ result.kind = "return" => result.value = given

\* validate returned a record holding an undeclared key under a schema with fields
C5_Witness ==
    /\ OnRecord("validate")
    /\ result.kind = "return"
    /\ HasOwn(given, UnknownKey)
    /\ HasOwn(result.value, UnknownKey)
    /\ schema # <<>>

(* C6: validatePartial skips every schema key that is not an own key of    *)
(* the data: no rule is evaluated for it, no custom predicate is called    *)
(* for it, and it is not in the error report.                              *)
C6_PartialSkipsAbsentKeys ==
    OnRecord("validatePartial") =>
        \A i \in 1..Len(schema) :
            ~HasOwn(given, schema[i].key) =>
                /\ \A e \in 1..Len(result.evals) : result.evals[e].key # schema[i].key
                /\ \A c \in 1..Len(result.calls) : result.calls[c].key # schema[i].key
                /\ schema[i].key \notin ReportKeys(result.fields)

\* rule is a type rule without the "?"
RequiredTypeRule(rule) == rule.t = "string" /\ ~Optional(rule.tag)

(* C7: validatePartial reports no 'is required' for a schema key absent    *)
(* from the input, and reports 'is required' for a key that is present     *)
(* with null or undefined under a required type rule.                      *)
C7_PartialRequired ==
    OnRecord("validatePartial") =>
        \A i \in 1..Len(schema) :
            LET key == schema[i].key
                rules == RuleArray(schema[i].rules)
                reported == \E m \in 1..Len(ListOf(result.fields, key)) :
                               ListOf(result.fields, key)[m] = "is required"
            IN  /\ ~HasOwn(given, key) => ~reported
                /\ (/\ HasOwn(given, key)
                    /\ Missing(Get(given, key))
                    /\ \E r \in 1..Len(rules) : RequiredTypeRule(rules[r]))
                   => (result.name = "ValidationError" /\ reported)

\* the record holding the keys that are declared in the schema and own keys
\* of the given record, each with the given value
Projection ==
    Obj([k \in KeysOf(schema) \cap DOMAIN given.own |-> given.own[k]])

(* C8: on a record, sanitize returns a new record whose keys are exactly   *)
(* the keys declared in the schema that are own keys of the data, with the *)
(* data's values; it evaluates no rule, never rejects, and leaves the      *)
(* input as it was.                                                        *)
C8_SanitizeProjects ==
    OnRecord("sanitize") =>
        /\ result.kind = "return"
        /\ result.value = Projection
        /\ result.evals = <<>>
        /\ result.calls = <<>>
        /\ data = given

(* C9: sanitize is idempotent: sanitizing what sanitize returned, under    *)
(* the same schema, returns a record with the same keys and values.        *)
C9_SanitizeIdempotent ==
    prev.kind = "return" =>
        /\ result.kind = "return"
        /\ result.value = prev.value

\* a record was sanitized twice; the first pass dropped a key and kept one
C9_Witness ==
    /\ prev.kind = "return"
    /\ HasOwn(given, UnknownKey)
    /\ ~HasOwn(prev.value, UnknownKey)
    /\ "name" \in DOMAIN prev.value.own
    /\ result.kind = "return"

(* C10: what validateAndSanitize returns holds exactly the schema-declared *)
(* keys present in the input, with their values, and the call throws a     *)
(* ValidationError whenever a field that survives fails one of its rules.  *)
C10_ValidateAndSanitize ==
    OnRecord("validateAndSanitize") =>
        /\ result.kind = "return" => result.value = Projection
        /\ \A i \in 1..Len(schema) :
              (HasOwn(given, schema[i].key) /\ FailuresOfField(i) # <<>>)
                 => (result.kind = "throw" /\ result.name = "ValidationError")

-----------------------------------------------------------------------------
(* C11: the error report of validate, validatePartial and                  *)
(* validateAndSanitize names only keys the schema declares, in its fields  *)
(* and, the message being these fields rendered, in its message: a key of  *)
(* the input that the schema does not declare never appears in it.         *)
C11_ReportNamesOnlySchemaKeys ==
    (fn \in {"validate", "validatePartial", "validateAndSanitize"}
       /\ result.name = "ValidationError") =>
        /\ ReportKeys(result.fields) \subseteq KeysOf(schema)
        /\ UnknownKey \notin ReportKeys(result.fields)
        /\ result.message =
              IF result.fields = NoFields THEN "Data must be an object"
              ELSE Rendered(result.fields)

\* validate rejected a record that carries an undeclared key
C11_Witness ==
    /\ fn = "validate"
    /\ HasOwn(given, UnknownKey)
    /\ result.name = "ValidationError"
    /\ result.fields # NoFields

-----------------------------------------------------------------------------
(* One rule on one field.  A caller holds a schema of one field with one   *)
(* rule and a record that has the field or lacks it; the rule is evaluated *)
(* on its own, as validate's loop evaluates it, or through validate or     *)
(* validatePartial.                                                        *)

\* the largest number a field holds, beside 20
MaxNumber == 3
\* the longest string and the longest array a field holds
MaxLength == 2
\* the longest candidate e-mail address
MaxEmailLength == 5

\* the sequences over A of length at most n
Words(A, n) == UNION {[1..m -> A] : m \in 0..n}

\* the field names: an ordinary one and the inherited ones
RuleKeys == {"name"} \cup ProtoKeys

\* the string literals of ValidationRule
AllTags ==
    {"string", "number", "boolean", "object", "array", "email", "url",
     "string?", "number?", "boolean?", "object?", "array?", "email?", "url?"}

\* the bounds of min, max, minLength and maxLength rules
RuleBounds == 1..2

\* the allowed-value lists of enum rules
EnumLists ==
    {<<Str(<<"A">>), Num(1)>>, <<Undefined>>, <<Null, Bool(TRUE)>>, <<NaN>>, <<>>}

\* the predicates of custom rules ("nothing" returns undefined)
Predicates == {"adult", "isTrue", "long", "async", "blank", "nothing"}

\* the rules a field is given
FieldRules ==
    {TypeRule(tag) : tag \in AllTags}
      \cup {MinRule(b) : b \in RuleBounds} \cup {MaxRule(b) : b \in RuleBounds}
      \cup {MinLengthRule(b) : b \in RuleBounds}
      \cup {MaxLengthRule(b) : b \in RuleBounds}
      \cup {PatternRule("^[A-Z]+$"), GlobalPatternRule("^[A-Z]+$")}
      \cup {EnumRule(vs) : vs \in EnumLists}
      \cup {CustomRule(p) : p \in Predicates}

\* values of every type
CommonValues ==
    {Undefined, Null, NaN, Bool(TRUE), Bool(FALSE), Obj(NoProps), Fn("f"),
     PromiseOf(Num(1))}
      \cup {Num(n) : n \in 0..MaxNumber} \cup {Num(20)}
      \cup {Str(cs) : cs \in Words({"A", "a"}, MaxLength)}
      \cup {Arr(es) : es \in Words({Num(1)}, MaxLength)}

\* the values a field under rule is given: for the two string shapes, also
\* the strings that come near the shape
ValuesFor(rule) ==
    CommonValues \cup
      (IF rule.t = "string" /\ BaseType(rule.tag) = "email"
       THEN {Str(cs) : cs \in Words({"a", "@", ".", " "}, MaxEmailLength)}
       ELSE IF rule.t = "string" /\ BaseType(rule.tag) = "url"
       THEN {Str(cs) : cs \in Words({"a", "1", ":"}, MaxLength + 1)}
       ELSE {})

InitRule ==
    /\ \E k \in RuleKeys, rule \in FieldRules :
          /\ schema = <<[key |-> k, rules |-> rule]>>
          /\ given \in {Obj(NoProps)} \cup {Obj(k :> v) : v \in ValuesFor(rule)}
    /\ data = given
    /\ fn = "none"
    /\ result = NoResult
    /\ prev = NoResult
    /\ lastIndex = 0
    /\ NotServing

\* const value = obj[key]; validateRule(key, value, rule, errors) for the
\* one rule of the one field, on a fresh accumulator
EvalRule(obj, entry) ==
    LET acc == ValidateRule(entry.key, Get(obj, entry.key), entry.rules, NewAcc)
    IN  IF acc.exc # "none" THEN Threw(acc.exc, "", NoFields, obj, acc)
        ELSE Returned(Undefined, obj, acc)

CallValidateRule == Call("validateRule", EvalRule(data, schema[1]))

NextRule ==
    \/ CallValidateRule
    \/ CallValidate
    \/ CallValidatePartial

SpecRule == InitRule /\ [][NextRule]_vars

\* the field, its rule and the value the rule is given
TheKey == schema[1].key
TheRule == schema[1].rules
TheValue == Get(given, TheKey)

\* the rule was evaluated on its own
RuleEvaluated == fn = "validateRule"

\* the messages the evaluation appended to the field's list
Appended == IF result.errors = <<>> THEN <<>> ELSE result.errors[1].errs

(* C12: a type rule given undefined or null appends exactly 'is required'  *)
(* when it is required and nothing when it is optional, and checks no      *)
(* type; so a field whose only rule is an optional type rule and which is  *)
(* absent or null passes validate and validatePartial, which return the    *)
(* record.                                                                 *)
C12_MissingValue ==
    TheRule.t = "string" =>
        /\ (RuleEvaluated /\ Missing(TheValue)) =>
              /\ result.kind = "return"
              /\ Appended = IF Optional(TheRule.tag) THEN <<>> ELSE <<"is required">>
        /\ (fn \in {"validate", "validatePartial"} /\ Optional(TheRule.tag)
              /\ (~HasOwn(given, TheKey) \/ Missing(given.own[TheKey]))) =>
              /\ result.kind = "return"
              /\ result.value = given

\* local@domain.tld: one "@", no whitespace, something before the "@", and
\* after it a "." with something on both sides
EmailShape(cs) ==
    LET ats == {i \in 1..Len(cs) : cs[i] = "@"}
    IN  /\ Cardinality(ats) = 1
        /\ \A i \in 1..Len(cs) : cs[i] \notin SpaceChars
        /\ \E a \in ats : a > 1 /\ \E j \in (a + 2)..(Len(cs) - 1) : cs[j] = "."

\* the value is of the base type
OfType(base, v) ==
    CASE base = "string" -> v.t = "string"
      [] base = "number" -> v.t = "number"
      [] base = "boolean" -> v.t = "boolean"
      [] base = "object" -> v.t \in {"object", "promise"}
      [] base = "array" -> v.t = "array"
      [] base = "email" -> v.t = "string" /\ EmailShape(v.s)

\* the one type error of the base type
TypeErrorOf(base) ==
    CASE base = "string" -> "must be a string"
      [] base = "number" -> "must be a number"
      [] base = "boolean" -> "must be a boolean"
      [] base = "object" -> "must be an object"
      [] base = "array" -> "must be an array"
      [] base = "email" -> "must be a valid email"

(* C13: given a value that is neither undefined nor null, a type rule,     *)
(* required or optional, appends its one type error exactly when the value *)
(* is not of the base type: a string, a number other than NaN, a boolean,  *)
(* a non-array object, an array, a string of the shape local@domain.tld.   *)
C13_TypeErrorIffNotOfType ==
    (RuleEvaluated /\ TheRule.t = "string" /\ BaseType(TheRule.tag) # "url"
       /\ ~Missing(TheValue)) =>
        /\ result.kind = "return"
        /\ Appended = IF OfType(BaseType(TheRule.tag), TheValue) THEN <<>>
                      ELSE <<TypeErrorOf(BaseType(TheRule.tag))>>

(* C14: {min: b} appends 'must be at least b' unless the value is a number *)
(* with value >= b, and {max: b} appends 'must be at most b' unless the    *)
(* value is a number with value <= b, for every value: a non-number, a     *)
(* missing value and NaN, which satisfies neither comparison, get the      *)
(* error.                                                                  *)
C14_BoundErrorUnlessWithin ==
    /\ (RuleEvaluated /\ TheRule.t = "object" /\ TheRule.keys = {"min"}) =>
          /\ result.kind = "return"
          /\ Appended = IF TheValue.t = "number" /\ TheValue.n >= TheRule.min
                        THEN <<>>
                        ELSE <<"must be at least " \o ToString(TheRule.min)>>
    /\ (RuleEvaluated /\ TheRule.t = "object" /\ TheRule.keys = {"max"}) =>
          /\ result.kind = "return"
          /\ Appended = IF TheValue.t = "number" /\ TheValue.n <= TheRule.max
                        THEN <<>>
                        ELSE <<"must be at most " \o ToString(TheRule.max)>>

\* the length rule or pattern rule has something to measure
Applicable(rule, v) ==
    IF "pattern" \in rule.keys THEN v.t = "string" ELSE v.t \in {"string", "array"}

\* characters of a string, items of an array
Unit(v) == IF v.t = "string" THEN "characters" ELSE "items"

Verdict == CustomApply(TheRule.custom, TheValue)

(* C16: a custom rule invokes its predicate exactly once, on the field's   *)
(* value.  When the predicate returns true nothing is appended, when it    *)
(* returns false 'failed custom validation' is appended, when it returns a *)
(* string that string is appended as it is, so that validate rejects the   *)
(* field whatever the string; any other return value, such as the promise  *)
(* of an async predicate, appends nothing.                                 *)
C16_CustomOutcomes ==
    (TheRule.t = "object" /\ TheRule.keys = {"custom"}) =>
        /\ RuleEvaluated =>
              result.calls = <<[key |-> TheKey, pred |-> TheRule.custom, arg |-> TheValue]>>
        /\ (RuleEvaluated /\ ~Verdict.threw) =>
              /\ result.kind = "return"
              /\ Appended =
                    CASE Verdict.value = Bool(FALSE) -> <<"failed custom validation">>
                      [] Verdict.value.t = "string" -> <<Text(Verdict.value.s)>>
                      [] OTHER -> <<>>
        /\ (fn = "validate" /\ ~Verdict.threw /\ Verdict.value.t = "string") =>
              /\ result.name = "ValidationError"
              /\ result.fields = <<[key |-> TheKey, errs |-> <<Text(Verdict.value.s)>>]>>

\* the value is one of the allowed values
Listed(vs, v) == \E i \in 1..Len(vs) : vs[i] = v

\* the allowed values as join writes them: undefined and null as nothing
AllowedTexts(vs) ==
    [i \in 1..Len(vs) |-> IF Missing(vs[i]) THEN "" ELSE ToText(vs[i])]

(* C17: an enum rule appends 'must be one of: ' followed by the allowed    *)
(* values joined by ', ' unless the value is one of the allowed values,    *)
(* for a value of any type: undefined and null fail unless listed.         *)
C17_EnumErrorUnlessListed ==
    (RuleEvaluated /\ TheRule.t = "object" /\ TheRule.keys = {"enum"}) =>
        /\ result.kind = "return"
        /\ Appended = IF Listed(TheRule.enum, TheValue) THEN <<>>
                      ELSE <<"must be one of: " \o CommaList(AllowedTexts(TheRule.enum))>>

-----------------------------------------------------------------------------
(* One schema, many calls.  The schema is built once and kept; request     *)
(* after request hands a record of its own to validate or validatePartial  *)
(* under it.  Every call starts with a fresh accumulator; the pattern      *)
(* object in the schema is the same object in every call.                  *)

\* the rules of the field name, and of the field age, in a kept schema
ReuseNameRules ==
    {TypeRule("string"), PatternRule("^[A-Z]+$"), GlobalPatternRule("^[A-Z]+$"),
     Arr(<<TypeRule("string"), GlobalPatternRule("^[A-Z]+$")>>),
     CustomRule("long")}
ReuseAgeRules == {TypeRule("number?"), MinRule(18)}

ReuseSchemas ==
    {<<[key |-> "name", rules |-> n], [key |-> "age", rules |-> a]>> :
        n \in ReuseNameRules, a \in ReuseAgeRules}

\* the records the requests carry
ReuseRecords ==
    LET D == [name |-> {Str(<<"A">>), Str(<<"A", "B">>), Str(<<"a">>)},
              age |-> {Num(15), Num(20)}]
    IN  UNION {[K -> UNION {D[k] : k \in K}] : K \in SUBSET {"name", "age"}}

InitReuse ==
    /\ schema \in ReuseSchemas
    /\ given \in {Obj(r) : r \in ReuseRecords}
    /\ data = given
    /\ fn = "none"
    /\ result = NoResult
    /\ prev = NoResult
    /\ lastIndex = 0
    /\ NotServing

\* a request calls fn(d, schema), which ends in outcome out
Request(name, d, out) ==
    /\ given' = d
    /\ data' = out.input
    /\ fn' = name
    /\ result' = out
    /\ lastIndex' = out.lastIndex
    /\ UNCHANGED <<schema, prev>>
    /\ UNCHANGED hvars

ReuseValidate ==
    \E d \in {Obj(r) : r \in ReuseRecords} : Request("validate", d, Validate(d, schema))

ReuseValidatePartial ==
    \E d \in {Obj(r) : r \in ReuseRecords} :
        Request("validatePartial", d, ValidatePartial(d, schema))

NextReuse ==
    \/ ReuseValidate
    \/ ReuseValidatePartial

SpecReuse == InitReuse /\ [][NextReuse]_vars

(* C18: the outcome of a call depends on the data and the schema alone: a  *)
(* call that follows, with the same entry point, the same schema and equal *)
(* data, a call made at any point of the schema's life ends as that call   *)
(* did: both return, or both throw the same error with the same fields.    *)
C18_OutcomeIndependentOfEarlierCalls ==
    [][(fn # "none" /\ fn' = fn /\ given' = given) =>
          /\ result'.kind = result.kind
          /\ result'.name = result.name
          /\ result'.fields = result.fields]_vars

-----------------------------------------------------------------------------
(* The response helpers and withHandler (src/src/format.ts).  A response   *)
(* body is JSON text, a sequence of characters, as JSON.stringify writes   *)
(* it.                                                                     *)

DigitSeq == <<"0", "1", "2", "3", "4", "5", "6", "7", "8", "9">>

RECURSIVE NumberText(_)
\* the decimal digits of a natural number
NumberText(n) ==
    IF n < 10 THEN <<DigitSeq[n + 1]>>
    ELSE NumberText(n \div 10) \o <<DigitSeq[(n % 10) + 1]>>

RECURSIVE Escape(_)
\* the characters of a string inside a JSON string literal
Escape(cs) ==
    IF cs = <<>> THEN <<>>
    ELSE (IF Head(cs) \in {"\"", "\\"} THEN <<"\\", Head(cs)>> ELSE <<Head(cs)>>)
         \o Escape(Tail(cs))

JsonString(cs) == <<"\"">> \o Escape(cs) \o <<"\"">>

\* { success: false, error: message }
FormatError(message) == [t |-> "envelope", success |-> FALSE, error |-> Str(message)]

\* { success: true, data }
FormatSuccess(d) == [t |-> "envelope", success |-> TRUE, data |-> d]

SuccessFalseError ==
    <<"{", "\"", "s", "u", "c", "c", "e", "s", "s", "\"", ":", "f", "a",
      "l", "s", "e", ",", "\"", "e", "r", "r", "o", "r", "\"", ":">>
SuccessTrue ==
    <<"{", "\"", "s", "u", "c", "c", "e", "s", "s", "\"", ":", "t", "r",
      "u", "e">>
DataMember ==
    <<",", "\"", "d", "a", "t", "a", "\"", ":">>

RECURSIVE Stringify(_)
RECURSIVE Members(_, _)
\* the members of an object literal; the own properties of a record of the
\* model carry no order, the records that are written out here have one key
Members(own, keys) ==
    IF keys = {} THEN <<>>
    ELSE LET k == CHOOSE x \in keys : TRUE
         IN  JsonString(<<k>>) \o <<":">> \o Stringify(own[k])
             \o (IF keys = {k} THEN <<>> ELSE <<",">> \o Members(own, keys \ {k}))

\* JSON.stringify(v)
Stringify(v) ==
    CASE v.t = "string" -> JsonString(v.s)
      [] v.t = "number" -> NumberText(v.n)
      [] v.t = "boolean" -> IF v.b THEN <<"t", "r", "u", "e">>
                            ELSE <<"f", "a", "l", "s", "e">>
      [] v.t \in {"null", "NaN"} -> <<"n", "u", "l", "l">>
      [] v.t = "object" -> <<"{">> \o Members(v.own, DOMAIN v.own) \o <<"}">>
      [] v.t = "envelope" /\ ~v.success ->
            SuccessFalseError \o Stringify(v.error) \o <<"}">>
      [] v.t = "envelope" /\ v.success ->
            \* a member whose value is undefined is left out
            SuccessTrue
              \o (IF v.data.t = "undefined" THEN <<>>
                  ELSE DataMember \o Stringify(v.data))
              \o <<"}">>

\* the statuses a response may not carry a body with
NullBodyStatus == {101, 103, 204, 205, 304}

\* new Response(body, { status, headers: { "Content-Type": "application/json" } })
\* as the Fetch standard defines the constructor: a status outside 200..599
\* is a RangeError, a body with a null body status a TypeError
NewResponse(body, status) ==
    IF status < 200 \/ status > 599
    THEN [threw |-> "RangeError", response |-> Undefined]
    ELSE IF status \in NullBodyStatus
    THEN [threw |-> "TypeError", response |-> Undefined]
    ELSE [threw |-> "none",
          response |-> [t |-> "response", status |-> status, body |-> body,
                        contentType |-> "application/json"]]

\* a parameter with a default value: an argument left out, or undefined,
\* gets the default
OrDefault(arg, default) == IF arg.t = "undefined" THEN default ELSE arg

\* toResponse(obj, status = 200)
ToResponse(obj, status) ==
    NewResponse(Stringify(obj), OrDefault(status, Num(200)).n)

\* success(data, status = 200)
Success(d, status) == ToResponse(FormatSuccess(d), OrDefault(status, Num(200)))

\* error answering 200 when no status is given
ErrorDefault200(message, status) ==
    ToResponse(FormatError(message), OrDefault(status, Num(200)))

\* error(message, status = 400)
Error(message, status) == ToResponse(FormatError(message), OrDefault(status, Num(400)))

\* created(data)
Created(d) == Success(d, Num(201))

\* unauthorized(message = "Unauthorized")
Unauthorized(message) ==
    Error(OrDefault(message, Str(<<"U", "n", "a", "u", "t", "h", "o", "r", "i", "z", "e", "d">>)).s,
          Num(401))

\* forbidden(message = "Forbidden")
Forbidden(message) ==
    Error(OrDefault(message, Str(<<"F", "o", "r", "b", "i", "d", "d", "e", "n">>)).s, Num(403))

\* notFound(message = "Not Found")
NotFound(message) ==
    Error(OrDefault(message, Str(<<"N", "o", "t", " ", "F", "o", "u", "n", "d">>)).s, Num(404))

InternalServerError ==
    <<"I", "n", "t", "e", "r", "n", "a", "l", " ", "S", "e", "r", "v", "e",
      "r", " ", "E", "r", "r", "o", "r">>

\* new ApiError(message, status): the carrier of a message and a status
ApiError(message, status) ==
    [t |-> "error", class |-> "ApiError", message |-> message, status |-> status]

\* new Error(message)
JsError(message) == [t |-> "error", class |-> "Error", message |-> message]

\* err instanceof ApiError
IsApiError(err) == err.t = "error" /\ err.class = "ApiError"

\* the promise of the wrapped function, fulfilled or rejected
Resolved(resp) == [kind |-> "resolved", response |-> resp]
Rejected(name) == [kind |-> "rejected", error |-> name]

\* return <a response being built>: what the construction throws leaves the
\* function
Respond(made) ==
    IF made.threw = "none" THEN Resolved(made.response) ELSE Rejected(made.threw)

\* the catch block answering every error with the error's own message
CatchLeaking(err) ==
    IF IsApiError(err)
    THEN [settled |-> Respond(Error(err.message, Num(err.status))), logged |-> FALSE]
    ELSE [settled |-> Respond(Error(IF err.t = "string" THEN err.s
                                    ELSE IF err.class = "Error" THEN err.message
                                    ELSE <<"i", "n", "v", "a", "l", "i", "d">>,
                                    Num(500))),
          logged |-> TRUE]

\* the catch block of withHandler: [settled, logged]
Catch(err) ==
    IF IsApiError(err)
    THEN [settled |-> Respond(Error(err.message, Num(err.status))), logged |-> FALSE]
    ELSE [settled |-> Respond(Error(InternalServerError, Num(500))), logged |-> TRUE]

\* the try block answering every result that is not a Response with 200
ContinueAlways200(res) ==
    IF res.t = "response" THEN [settled |-> Resolved(res), logged |-> FALSE]
    ELSE IF res.t \in {"undefined", "null"}
    THEN [settled |-> Respond(NewResponse(InternalServerError, 500)), logged |-> TRUE]
    ELSE [settled |-> Respond(ToResponse(res, Num(200))), logged |-> FALSE]

\* the try block after the await, with the handler's result; reading
\* .success of undefined or null is a TypeError, which the catch block gets
Continue(res) ==
    IF res.t = "response" THEN [settled |-> Resolved(res), logged |-> FALSE]
    ELSE IF res.t \in {"undefined", "null"} THEN Catch(JsError("TypeError"))
    ELSE IF res.t = "envelope" /\ ~res.success
    THEN [settled |-> Respond(ToResponse(res, Num(400))), logged |-> FALSE]
    ELSE [settled |-> Respond(ToResponse(res, Num(200))), logged |-> FALSE]

\* handler(...args): [threw, value].  A handler returns a value, throws a
\* value, or validates the request body and answers created(validated),
\* letting what validate throws go up.
HandlerRun(h, body, entries) ==
    CASE h.does = "return" -> [threw |-> FALSE, value |-> h.value]
      [] h.does = "throw" -> [threw |-> TRUE, value |-> h.value]
      [] h.does = "validate" ->
            LET out == Validate(body, entries)
            IN  IF out.kind = "throw"
                THEN [threw |-> TRUE,
                      value |-> [t |-> "error", class |-> out.name,
                                 message |-> out.message, fields |-> out.fields]]
                ELSE [threw |-> FALSE, value |-> Created(out.value).response]

\* the statuses of the ApiErrors handlers throw
ApiStatuses == {103, 204, 400, 401, 404, 418, 500, 503, 511}

\* the messages of the errors handlers throw
Messages == {<<>>, <<"N", "o">>, <<"\"", "a">>, <<"\\">>}

\* what handlers return
Returns ==
    {Success(Str(<<"o", "k">>), Num(200)).response,
     Error(<<"N", "o">>, Num(404)).response,
     FormatSuccess(Num(12)), FormatSuccess(Undefined), FormatError(<<"N", "o">>),
     FormatSuccess(Null), FormatSuccess(Str(<<"o", "\"">>)), FormatError(<<>>),
     Null, Undefined, Num(1), Str(<<"o", "k">>)}

Handlers ==
    {[does |-> "throw", value |-> ApiError(m, st), async |-> a] :
        m \in Messages, st \in ApiStatuses, a \in BOOLEAN}
      \cup {[does |-> "throw", value |-> e, async |-> a] :
              e \in {JsError(m) : m \in Messages} \cup {Str(m) : m \in Messages},
              a \in BOOLEAN}
      \cup {[does |-> "return", value |-> v, async |-> a] : v \in Returns, a \in BOOLEAN}
      \cup {[does |-> "validate", value |-> Undefined, async |-> a] : a \in BOOLEAN}

\* the request bodies the validating handler is called with
Bodies ==
    {Obj(NoProps), Obj("name" :> Str(<<"A">>)), Obj("name" :> Str(<<"A", "l">>)),
     Obj("name" :> Num(1)), Null}

InitHandler ==
    /\ schema = <<[key |-> "name",
                   rules |-> Arr(<<TypeRule("string"), MinLengthRule(2)>>)]>>
    /\ given \in Bodies
    /\ data = given
    /\ fn = "none"
    /\ result = NoResult
    /\ prev = NoResult
    /\ lastIndex = 0
    /\ handler \in Handlers
    /\ pc = "idle"
    /\ settled = [kind |-> "none"]
    /\ logged = FALSE

\* the wrapped function is called: it calls the handler inside try; what the
\* handler throws before returning is caught at once, anything else is
\* awaited
Invoke ==
    /\ pc = "idle"
    /\ handler.does # "nothing"
    /\ LET run == HandlerRun(handler, given, schema)
       IN  IF run.threw /\ ~handler.async
           THEN /\ pc' = "done"
                /\ settled' = Catch(run.value).settled
                /\ logged' = Catch(run.value).logged
           ELSE /\ pc' = "awaiting"
                /\ UNCHANGED <<settled, logged>>
    /\ UNCHANGED <<handler, vvars>>

\* the awaited result arrives: a rejection goes to the catch block, a value
\* through the rest of the try block
Resume ==
    /\ pc = "awaiting"
    /\ LET run == HandlerRun(handler, given, schema)
           out == IF run.threw THEN Catch(run.value) ELSE Continue(run.value)
       IN  /\ settled' = out.settled
           /\ logged' = out.logged
    /\ pc' = "done"
    /\ UNCHANGED <<handler, vvars>>

NextHandler ==
    \/ Invoke
    \/ Resume

SpecHandler == InitHandler /\ [][NextHandler]_vars

-----------------------------------------------------------------------------
(* Reading a response, as the caller of the wrapped function does. *)

RECURSIVE WellEscaped(_)
\* the inside of a JSON string literal: no bare quote, no dangling backslash
WellEscaped(cs) ==
    IF cs = <<>> THEN TRUE
    ELSE IF Head(cs) = "\\"
    THEN Len(cs) >= 2 /\ cs[2] \in {"\"", "\\"} /\ WellEscaped(SubSeq(cs, 3, Len(cs)))
    ELSE Head(cs) # "\"" /\ WellEscaped(Tail(cs))

RECURSIVE Unescape(_)
\* the string a JSON string literal with this inside stands for
Unescape(cs) ==
    IF cs = <<>> THEN <<>>
    ELSE IF Head(cs) = "\\" THEN <<cs[2]>> \o Unescape(SubSeq(cs, 3, Len(cs)))
    ELSE <<Head(cs)>> \o Unescape(Tail(cs))

\* response.json() read as { success: false, error }: [ok, error]
ParseErrorBody(body) ==
    LET n == Len(SuccessFalseError)
        inside == SubSeq(body, n + 2, Len(body) - 2)
    IN  IF /\ Len(body) >= n + 3
           /\ SubSeq(body, 1, n) = SuccessFalseError
           /\ body[n + 1] = "\""
           /\ body[Len(body) - 1] = "\""
           /\ body[Len(body)] = "}"
           /\ WellEscaped(inside)
        THEN [ok |-> TRUE, error |-> Unescape(inside)]
        ELSE [ok |-> FALSE, error |-> <<>>]

\* what the handler of this run does when called
Run == HandlerRun(handler, given, schema)

(* C19: when the wrapped handler throws an ApiError with message m and     *)
(* status s, at once or from an async body, the wrapped function resolves  *)
(* with a response of status s whose body reads as                         *)
(* {success: false, error: m}, whatever status the ApiError carries.       *)
C19_ApiErrorBecomesItsResponse ==
    (pc = "done" /\ Run.threw /\ IsApiError(Run.value)) =>
        /\ settled.kind = "resolved"
        /\ settled.response.status = Run.value.status
        /\ settled.response.contentType = "application/json"
        /\ ParseErrorBody(settled.response.body) =
              [ok |-> TRUE, error |-> Run.value.message]

(* C20: when the wrapped handler throws a value that is not an ApiError,   *)
(* an Error, a string, or the ValidationError of validate on an invalid    *)
(* body, the wrapped function resolves with status 500 and a body that     *)
(* reads as {success: false, error: 'Internal Server Error'}: one and the  *)
(* same response whatever was thrown, with nothing of the thrown value in  *)
(* it.                                                                     *)
C20_OtherThrowBecomes500 ==
    (pc = "done" /\ Run.threw /\ ~IsApiError(Run.value)) =>
        /\ settled = Resolved(Error(InternalServerError, Num(500)).response)
        /\ settled.response.status = 500
        /\ ParseErrorBody(settled.response.body) =
              [ok |-> TRUE, error |-> InternalServerError]

\* the handler validated a body with a field too short, validate threw its
\* ValidationError, and the wrapped function has settled
C20_Witness ==
    /\ pc = "done"
    /\ handler.does = "validate"
    /\ Run.threw
    /\ Run.value.class = "ValidationError"
    /\ Run.value.fields # NoFields

\* the number a digit stands for
DigitValue(c) == (CHOOSE i \in 1..10 : DigitSeq[i] = c) - 1

RECURSIVE NumberValue(_)
\* the number a sequence of digits stands for
NumberValue(cs) ==
    IF cs = <<>> THEN 0
    ELSE 10 * NumberValue(SubSeq(cs, 1, Len(cs) - 1)) + DigitValue(cs[Len(cs)])

\* JSON text read as null, a string or a natural number: [ok, value]
ParseValue(cs) ==
    IF cs = <<"n", "u", "l", "l">> THEN [ok |-> TRUE, value |-> Null]
    ELSE IF /\ Len(cs) >= 2
            /\ cs[1] = "\""
            /\ cs[Len(cs)] = "\""
            /\ WellEscaped(SubSeq(cs, 2, Len(cs) - 1))
    THEN [ok |-> TRUE, value |-> Str(Unescape(SubSeq(cs, 2, Len(cs) - 1)))]
    ELSE IF cs # <<>> /\ \A i \in 1..Len(cs) : \E d \in 1..10 : DigitSeq[d] = cs[i]
    THEN [ok |-> TRUE, value |-> Num(NumberValue(cs))]
    ELSE [ok |-> FALSE, value |-> Undefined]

\* response.json() read as { success: true, data }: [ok, data], data
\* undefined when the body has no such member
ParseSuccessBody(body) ==
    LET n == Len(SuccessTrue)
        m == Len(DataMember)
    IN  IF body = SuccessTrue \o <<"}">> THEN [ok |-> TRUE, data |-> Undefined]
        ELSE IF /\ Len(body) > n + m + 1
                /\ SubSeq(body, 1, n) = SuccessTrue
                /\ SubSeq(body, n + 1, n + m) = DataMember
                /\ body[Len(body)] = "}"
        THEN LET v == ParseValue(SubSeq(body, n + m + 1, Len(body) - 1))
             IN  [ok |-> v.ok, data |-> v.value]
        ELSE [ok |-> FALSE, data |-> Undefined]

\* the body reads as the envelope
ReadsAs(body, envelope) ==
    IF envelope.success
    THEN ParseSuccessBody(body) = [ok |-> TRUE, data |-> envelope.data]
    ELSE ParseErrorBody(body) = [ok |-> TRUE, error |-> envelope.error.s]

(* C21: when the wrapped handler returns a Response, the wrapped function  *)
(* resolves with that very Response; when it returns an envelope whose     *)
(* success is false, with a response of status 400, and for any other      *)
(* envelope with a response of status 200, the body reading as the         *)
(* returned envelope.                                                      *)
C21_ReturnedValueBecomesResponse ==
    (pc = "done" /\ ~Run.threw) =>
        /\ Run.value.t = "response" => settled = Resolved(Run.value)
        /\ Run.value.t = "envelope" =>
              /\ settled.kind = "resolved"
              /\ settled.response.status = IF Run.value.success THEN 200 ELSE 400
              /\ settled.response.contentType = "application/json"
              /\ ReadsAs(settled.response.body, Run.value)

\* the handler returned an error envelope and the wrapped function settled
C21_Witness ==
    /\ pc = "done"
    /\ ~Run.threw
    /\ Run.value.t = "envelope"
    /\ ~Run.value.success
    /\ settled.kind = "resolved"

-----------------------------------------------------------------------------
(* The wrapped function under the scheduling of the language: a call that  *)
(* was made runs up to its await, and the continuation of an await whose   *)
(* promise has settled is run.                                             *)
SpecHandlerFair ==
    InitHandler /\ [][NextHandler]_vars /\ WF_vars(Invoke) /\ WF_vars(Resume)

(* C22: a call of the wrapped function always completes with a Response    *)
(* and never rejects, whatever the handler returns or throws, at once or   *)
(* after awaiting; its promise settles once, with one response.            *)
C22_AlwaysOneResponse ==
    /\ <>(pc = "done" /\ settled.kind = "resolved"
            /\ settled.response.t = "response")
    /\ [](settled.kind # "rejected")
    /\ [][settled.kind # "none" => settled' = settled]_vars

-----------------------------------------------------------------------------
(* The response helpers called directly: one call of one helper, which     *)
(* returns a response or lets what the Response constructor throws go up.  *)

\* the statuses the helpers are called with
HelperStatuses == {103, 200, 201, 202, 204, 304, 400, 404, 422, 500, 599, 600}

\* the status argument: a number, or left out
StatusArgs == {Undefined} \cup {Num(st) : st \in HelperStatuses}

\* the data success and created are called with
HelperData == {Num(12), Null, Undefined, Str(<<"o", "\"">>)}

\* the message argument of the shortcuts: a string, or left out
MessageArgs == {Undefined} \cup {Str(m) : m \in Messages}

\* the envelopes toResponse is called with
Envelopes == {FormatSuccess(d) : d \in HelperData} \cup {FormatError(m) : m \in Messages}

InitHelper ==
    /\ schema = <<>>
    /\ given = Obj(NoProps)
    /\ data = given
    /\ fn = "none"
    /\ result = NoResult
    /\ prev = NoResult
    /\ lastIndex = 0
    /\ NotServing

\* the outcome of a helper call: the response returned or the error thrown
Made(made) ==
    IF made.threw = "none" THEN [kind |-> "returned", response |-> made.response]
    ELSE [kind |-> "threw", error |-> made.threw]

\* one call helper(arg, status) and its outcome
CallHelper(name, arg, status, made) ==
    /\ pc = "idle"
    /\ handler' = [does |-> "helper", name |-> name, arg |-> arg, status |-> status]
    /\ settled' = Made(made)
    /\ pc' = "done"
    /\ UNCHANGED <<logged, vvars>>

CallToResponse ==
    \E obj \in Envelopes, status \in StatusArgs :
        CallHelper("toResponse", obj, status, ToResponse(obj, status))

CallSuccess ==
    \E d \in HelperData, status \in StatusArgs :
        CallHelper("success", d, status, Success(d, status))

CallError ==
    \E m \in Messages, status \in StatusArgs :
        CallHelper("error", Str(m), status, Error(m, status))

CallCreated ==
    \E d \in HelperData : CallHelper("created", d, Undefined, Created(d))

CallUnauthorized ==
    \E m \in MessageArgs : CallHelper("unauthorized", m, Undefined, Unauthorized(m))

CallForbidden ==
    \E m \in MessageArgs : CallHelper("forbidden", m, Undefined, Forbidden(m))

CallNotFound ==
    \E m \in MessageArgs : CallHelper("notFound", m, Undefined, NotFound(m))

NextHelper ==
    \/ CallToResponse
    \/ CallSuccess
    \/ CallError
    \/ CallCreated
    \/ CallUnauthorized
    \/ CallForbidden
    \/ CallNotFound

SpecHelper == InitHelper /\ [][NextHelper]_vars

\* the status the documentation gives the call
DocumentedStatus ==
    CASE handler.name = "created" -> 201
      [] handler.name = "unauthorized" -> 401
      [] handler.name = "forbidden" -> 403
      [] handler.name = "notFound" -> 404
      [] handler.status.t = "number" -> handler.status.n
      [] handler.name = "error" -> 400
      [] OTHER -> 200

\* the message the documentation gives a shortcut called without one
DocumentedMessage ==
    CASE handler.arg.t = "string" -> handler.arg
      [] handler.name = "unauthorized" ->
            Str(<<"U", "n", "a", "u", "t", "h", "o", "r", "i", "z", "e", "d">>)
      [] handler.name = "forbidden" ->
            Str(<<"F", "o", "r", "b", "i", "d", "d", "e", "n">>)
      [] OTHER -> Str(<<"N", "o", "t", " ", "F", "o", "u", "n", "d">>)

\* the envelope the documentation gives the call
DocumentedEnvelope ==
    CASE handler.name = "toResponse" -> handler.arg
      [] handler.name \in {"success", "created"} ->
            [t |-> "envelope", success |-> TRUE, data |-> handler.arg]
      [] OTHER -> [t |-> "envelope", success |-> FALSE, error |-> DocumentedMessage]

(* C23: every helper call returns a response with the documented status    *)
(* (the status given, else 200 for toResponse and success, 400 for error;  *)
(* 201, 401, 403, 404 for the shortcuts), Content-Type application/json    *)
(* and a body reading as the documented envelope, the shortcuts' default   *)
(* messages replaced by a supplied one.                                    *)
C23_HelpersProduceDocumented ==
    (pc = "done" /\ handler.does = "helper") =>
        /\ settled.kind = "returned"
        /\ settled.response.status = DocumentedStatus
        /\ settled.response.contentType = "application/json"
        /\ ReadsAs(settled.response.body, DocumentedEnvelope)

\* the statuses a response with a body can carry
BodyStatus == {st \in 200..599 : st \notin NullBodyStatus}

(* C23 as amended: a helper call whose documented status is one a response *)
(* with a body can carry (200..599 other than 204, 205 and 304) returns a  *)
(* response with that status, Content-Type application/json and a body     *)
(* reading as the documented envelope; with any other status the call      *)
(* throws, a RangeError outside 200..599 and a TypeError otherwise.        *)
C23_HelpersProduceDocumentedOrThrow ==
    (pc = "done" /\ handler.does = "helper") =>
        IF DocumentedStatus \in BodyStatus
        THEN /\ settled.kind = "returned"
             /\ settled.response.status = DocumentedStatus
             /\ settled.response.contentType = "application/json"
             /\ ReadsAs(settled.response.body, DocumentedEnvelope)
        ELSE settled = [kind |-> "threw",
                        error |-> IF DocumentedStatus \in 200..599
                                  THEN "TypeError" ELSE "RangeError"]

\* error was called without a status and returned a response
C23_Witness ==
    /\ pc = "done"
    /\ handler.does = "helper"
    /\ handler.name = "error"
    /\ handler.status = Undefined
    /\ settled.kind = "returned"

-----------------------------------------------------------------------------
(* C24: evaluating one rule against one field value never throws,         *)
(* whatever the rule and the value: it returns having appended only to     *)
(* that field's list; so validate and validatePartial raise nothing but    *)
(* the ValidationError.                                                    *)
C24_RuleEvaluationNeverThrows ==
    /\ RuleEvaluated =>
          /\ result.kind = "return"
          /\ \A i \in 1..Len(result.errors) : result.errors[i].key = TheKey
    /\ (fn \in {"validate", "validatePartial"} /\ result.kind = "throw") =>
          result.name = "ValidationError"

-----------------------------------------------------------------------------
(* One field under a list of two rules, a type rule and a constraint in    *)
(* either order, validated with the field missing or present.              *)

\* the constraints paired with a type rule
PairConstraints ==
    {MinRule(1), MaxRule(2), MinLengthRule(1), MaxLengthRule(2),
     PatternRule("^[A-Z]+$"),
     EnumRule(<<Str(<<"A">>), Num(1)>>), EnumRule(<<Null, Bool(TRUE)>>),
     EnumRule(<<Undefined>>)}

\* the values of the field: undefined, null, and two that are not missing
PairValues == {Undefined, Null, Str(<<"A">>), Num(1)}

InitPair ==
    /\ \E k \in RuleKeys, tag \in AllTags, c \in PairConstraints :
          /\ schema \in {<<[key |-> k, rules |-> Arr(<<TypeRule(tag), c>>)]>>,
                         <<[key |-> k, rules |-> Arr(<<c, TypeRule(tag)>>)]>>}
          /\ given \in {Obj(NoProps)} \cup {Obj(k :> v) : v \in PairValues}
    /\ data = given
    /\ fn = "none"
    /\ result = NoResult
    /\ prev = NoResult
    /\ lastIndex = 0
    /\ NotServing

NextPair ==
    \/ CallValidate
    \/ CallValidatePartial

SpecPair == InitPair /\ [][NextPair]_vars

\* what one rule of the list reports for a missing value
MissingReport(rule, v) ==
    CASE rule.t = "string" ->
            IF Optional(rule.tag) THEN <<>> ELSE <<"is required">>
      [] rule.keys = {"min"} -> <<"must be at least " \o ToString(rule.min)>>
      [] rule.keys = {"max"} -> <<"must be at most " \o ToString(rule.max)>>
      [] rule.keys = {"enum"} ->
            IF Listed(rule.enum, v) THEN <<>>
            ELSE <<"must be one of: " \o CommaList(AllowedTexts(rule.enum))>>
      [] OTHER -> <<>>

\* the rules of the field were evaluated against a missing value
MissingEvaluated ==
    /\ \/ fn = "validate"
       \/ fn = "validatePartial" /\ HasOwn(given, TheKey)
    /\ Missing(TheValue)

(* C25: with a type rule and one constraint in a field's list and the      *)
(* value undefined or null, each rule reports on its own, in list order:   *)
(* the type rule 'is required' when required and nothing when optional,    *)
(* minLength, maxLength and pattern nothing, min and max their error, enum *)
(* its error unless the missing value is listed.                           *)
C25_MissingStopsOnlyTheTypeRule ==
    MissingEvaluated =>
        LET expected == MissingReport(TheRule.es[1], TheValue)
                          \o MissingReport(TheRule.es[2], TheValue)
        IN  IF expected = <<>>
            THEN result.kind = "return" /\ result.value = given
            ELSE /\ result.kind = "throw"
                 /\ result.name = "ValidationError"
                 /\ result.fields = <<[key |-> TheKey, errs |-> expected]>>

-----------------------------------------------------------------------------
(* C26: on a record, validateAndSanitize throws exactly when validate      *)
(* throws on the same record and schema, with the same message and the     *)
(* same field errors; when neither throws, validateAndSanitize returns the *)
(* projection of the record onto the schema keys and validate the record.  *)
C26_SanitizingKeepsTheVerdict ==
    OnRecord("validateAndSanitize") =>
        LET plain == Validate(given, schema)
        IN  /\ (result.kind = "throw") <=> (plain.kind = "throw")
            /\ result.kind = "throw" =>
                  /\ result.name = plain.name
                  /\ result.message = plain.message
                  /\ result.fields = plain.fields
            /\ result.kind = "return" =>
                  /\ result.value = Projection
                  /\ plain.value = given

-----------------------------------------------------------------------------
\* the schema keys the record does not hold
AbsentKeys == {k \in KeysOf(schema) : ~HasOwn(given, k)}

\* an error report without the entries of the absent keys
Supplied(fields) ==
    LET Held(e) == e.key \notin AbsentKeys
    IN  SelectSeq(fields, Held)

=============================================================================
